---------------------------- MODULE Spec2Model ----------------------------
(***************************************************************************)
(* Model of the hotel concierge chat application (src/chat_app.py).        *)
(*                                                                         *)
(* The application is a Streamlit script: every user event (a chat input,  *)
(* a click on "Book Now" or on "Tap to Pay & Confirm", a manual rerun) and *)
(* every st.rerun() runs the whole script once against st.session_state.   *)
(* One action of this module is one run of the script.                     *)
(*                                                                         *)
(* Texts are sequences of strings.  A user input and a price are sequences *)
(* of one-character strings, so that lower(), strip() and the substring    *)
(* test are computed.  A text of the language model is a sequence of       *)
(* lexical tokens, so that the regular expression of parse_json_response   *)
(* and json.loads are computed.  A fixed text of the program is one chunk. *)
(***************************************************************************)
EXTENDS Integers, Sequences, FiniteSets, TLC

VARIABLES
    messages,         \* st.session_state.messages
    chat_stage,       \* st.session_state.chat_stage
    guest_info,       \* st.session_state.guest_info
    booking_request,  \* st.session_state.booking_request
    df_guests,        \* the guest table load_data() returned (cached)
    df_schedule,      \* the activity catalog load_data() returned (cached)
    screen,           \* the widgets the last run of the script put on the page
    rerun,            \* TRUE when the last run ended in st.rerun()
    run               \* what the last run of the script did (observation only)

vars == <<messages, chat_stage, guest_info, booking_request, df_guests,
          df_schedule, screen, rerun, run>>

session == <<messages, chat_stage, guest_info, booking_request>>

(***************************************************************************)
(* Bounds of the model.                                                    *)
(***************************************************************************)
\* chat inputs accepted in one session
MaxTurns == 3
\* messages in the history of one session
MaxMessages == 10
\* entries of a catalog given to the schedule filter
MaxCatalog == 2
\* records of a list given to the validator
MaxRecords == 2

(***************************************************************************)
(* Python values.                                                          *)
(***************************************************************************)
\* None, and the result of dict.get() on a missing key
None == [t |-> "none", items |-> <<>>]

Str(chunks) == [t |-> "str", items |-> chunks]

List(items) == [t |-> "list", items |-> items]

\* a dict, named by the token of the JSON object it was parsed from
Dict(tok) == [t |-> "dict", items |-> <<tok>>]

Number(tok) == [t |-> "int", items |-> <<tok>>]

\* mutant of Truthy: a value is tested with "is not None"
TruthyNotNone(v) == v.t # "none"

\* bool(v) for the values that occur
Truthy(v) ==
    CASE v.t = "none" -> FALSE
      [] v.t = "str"  -> v.items # <<>>
      [] v.t = "list" -> v.items # <<>>
      [] v.t = "dict" -> v.items # <<"{}">>
      [] v.t = "int"  -> v.items # <<"0">>

Upper == <<"A","B","C","D","E","F","G","H","I","J","K","L","M",
           "N","O","P","Q","R","S","T","U","V","W","X","Y","Z">>
Letters == <<"a","b","c","d","e","f","g","h","i","j","k","l","m",
             "n","o","p","q","r","s","t","u","v","w","x","y","z">>

LowerChar(c) ==
    IF \E i \in 1..26 : Upper[i] = c
    THEN Letters[CHOOSE i \in 1..26 : Upper[i] = c]
    ELSE c

\* str.lower()
lower(s) == [i \in 1..Len(s) |-> LowerChar(s[i])]

IsSpace(c) == c \in {" ", "\n", "\t"}

\* str.strip()
strip(s) ==
    IF \A i \in 1..Len(s) : IsSpace(s[i]) THEN <<>>
    ELSE LET first == CHOOSE i \in 1..Len(s) :
                        /\ ~IsSpace(s[i])
                        /\ \A j \in 1..(i-1) : IsSpace(s[j])
             last  == CHOOSE i \in 1..Len(s) :
                        /\ ~IsSpace(s[i])
                        /\ \A j \in (i+1)..Len(s) : IsSpace(s[j])
         IN  SubSeq(s, first, last)

\* Python's  word in text  for strings
Contains(word, text) ==
    \E i \in 1..(Len(text) - Len(word) + 1) :
        SubSeq(text, i, i + Len(word) - 1) = word

(***************************************************************************)
(* JSON objects the language model may put in its text.  A token "{..}"    *)
(* stands for the text of one JSON object; JsonObject gives the dict that  *)
(* json.loads makes of it.                                                 *)
(***************************************************************************)
SixFields == {"day", "date", "time", "activity_name", "price", "description"}

JsonObject(tok) ==
    CASE tok = "{aqua}" ->
            [fields |-> SixFields, activity_name |-> <<"Aqua Aerobics">>,
             price |-> <<"F","r","e","e">>]
      [] tok = "{whiskey}" ->
            [fields |-> SixFields, activity_name |-> <<"Whiskey Tasting">>,
             price |-> <<"3","0","0"," ","A","E","D">>]
      [] tok = "{mixer}" ->
            [fields |-> SixFields, activity_name |-> <<"Happy Hour Mixer">>,
             price |-> <<"P","a","y"," ","a","s"," ","y","o","u"," ","g","o">>]
      [] tok = "{partial}" ->
            [fields |-> {"activity_name", "date"},
             activity_name |-> <<"Sunrise Yoga">>, price |-> <<>>]
      [] tok = "{}" ->
            [fields |-> {}, activity_name |-> <<>>, price |-> <<>>]
      [] tok \in {"{note}", "{note-}", "{note?}"} ->
            [fields |-> SixFields, activity_name |-> <<"Sunset Cruise">>,
             price |-> <<"9","0"," ","A","E","D">>]

\* "{note}" is a record whose description holds a code-fence marker after a
\* space ("Bring a jacket <fence> it gets cold"); "{note-}" is that record
\* with the description "Bring a jacket it gets cold"; "{note?}" is that
\* record with any other description
ObjTokens == {"{aqua}", "{whiskey}", "{mixer}", "{partial}", "{}",
              "{note}", "{note-}", "{note?}"}

NumTokens == {"0", "5"}

\* act.get(key): the value, or None when the key is missing
Get(act, key) ==
    LET o == JsonObject(act.items[1])
    IN  IF key \in o.fields
        THEN Str(IF key = "activity_name" THEN o.activity_name
                 ELSE IF key = "price" THEN o.price ELSE <<key>>)
        ELSE None

\* act.get(key, default)
GetDefault(act, key, default) ==
    IF Get(act, key) = None THEN default ELSE Get(act, key)

\* str(v), also what an f-string makes of v
str(v) ==
    CASE v.t = "none" -> <<"None">>
      [] v.t = "str"  -> v.items
      [] OTHER        -> v.items

(***************************************************************************)
(* parse_json_response                                                     *)
(***************************************************************************)
\* the token of a code-fence marker (three backquotes)
Fence == "<fence>"

IsWs(tok) == tok \in {" ", "\n"}

\* the first index >= i of t that holds no whitespace token (Len(t)+1 if none)
RECURSIVE SkipWs(_, _)
SkipWs(t, i) ==
    IF i <= Len(t) /\ IsWs(t[i]) THEN SkipWs(t, i + 1) ELSE i

\* re.sub(r'<fence>json\s*|\s*<fence>', '', text): scan from the left; where the
\* first alternative matches it is taken, else the second, else the token is
\* kept.
RECURSIVE ReSubFrom(_, _)
ReSubFrom(t, i) ==
    IF i > Len(t) THEN <<>>
    ELSE IF t[i] = Fence /\ i + 1 <= Len(t) /\ t[i + 1] = "json"
         THEN ReSubFrom(t, SkipWs(t, i + 2))
    ELSE IF SkipWs(t, i) <= Len(t) /\ t[SkipWs(t, i)] = Fence
         THEN ReSubFrom(t, SkipWs(t, i) + 1)
    ELSE <<t[i]>> \o ReSubFrom(t, i + 1)

re_sub(text) == ReSubFrom(text, 1)

\* .strip() of a token text
StripWs(t) ==
    IF \A i \in 1..Len(t) : IsWs(t[i]) THEN <<>>
    ELSE LET first == CHOOSE i \in 1..Len(t) :
                        ~IsWs(t[i]) /\ \A j \in 1..(i-1) : IsWs(t[j])
             last  == CHOOSE i \in 1..Len(t) :
                        ~IsWs(t[i]) /\ \A j \in (i+1)..Len(t) : IsWs(t[j])
         IN  SubSeq(t, first, last)

\* The text of a record whose description holds a fence marker is more than
\* one token: "{note:" is the text up to the place of the marker, ":note}"
\* the text after it, and the tokens between them are part of the string.
\* Lex makes one object token of such a text, as the scanner of json.loads
\* reads a string (a line break inside a string is an error).
RECURSIVE Lex(_)
Lex(t) ==
    IF t = <<>> THEN <<>>
    ELSE IF Head(t) = "{note:" /\ \E j \in 2..Len(t) : t[j] = ":note}"
         THEN LET j   == CHOOSE j \in 2..Len(t) :
                            t[j] = ":note}" /\ \A k \in 2..(j-1) : t[k] # ":note}"
                  mid == SubSeq(t, 2, j - 1)
                  tok == IF \E k \in 1..Len(mid) : mid[k] = "\n" THEN "?"
                         ELSE IF mid = <<" ", Fence>> THEN "{note}"
                         ELSE IF mid = <<>> THEN "{note-}"
                         ELSE "{note?}"
              IN  <<tok>> \o Lex(SubSeq(t, j + 1, Len(t)))
    ELSE <<Head(t)>> \o Lex(Tail(t))

RECURSIVE DropWs(_)
DropWs(t) ==
    IF t = <<>> THEN <<>>
    ELSE IF IsWs(Head(t)) THEN DropWs(Tail(t))
    ELSE <<Head(t)>> \o DropWs(Tail(t))

IsJsonValueToken(tok) == tok \in ObjTokens \cup NumTokens

\* json.loads: [ok |-> FALSE] when it raises, else the value.  Whitespace
\* between the tokens of a document is insignificant.
json_loads(text) ==
    LET t == DropWs(Lex(text))
        n == Len(t)
    IN  IF n = 1 /\ t[1] \in ObjTokens THEN [ok |-> TRUE, value |-> Dict(t[1])]
        ELSE IF n = 1 /\ t[1] \in NumTokens
             THEN [ok |-> TRUE, value |-> Number(t[1])]
        ELSE IF n = 1 /\ t[1] = "null" THEN [ok |-> TRUE, value |-> None]
        ELSE IF n >= 2 /\ t[1] = "[" /\ t[n] = "]"
             THEN LET inner == SubSeq(t, 2, n - 1)
                      m     == Len(inner)
                  IN  IF m = 0 THEN [ok |-> TRUE, value |-> List(<<>>)]
                      ELSE IF /\ m % 2 = 1
                              /\ \A i \in 1..m :
                                    IF i % 2 = 1 THEN IsJsonValueToken(inner[i])
                                    ELSE inner[i] = ","
                           THEN [ok |-> TRUE,
                                 value |-> List([i \in 1..((m + 1) \div 2) |->
                                                    inner[2 * i - 1]])]
                      ELSE [ok |-> FALSE, value |-> None]
        ELSE [ok |-> FALSE, value |-> None]

\* text is a Python value: a str, or None (on which re.sub raises)
parse_json_response(text) ==
    IF text.t # "str" THEN None
    ELSE LET cleaned_text == StripWs(re_sub(text.items))
             r == json_loads(cleaned_text)
         IN  IF r.ok THEN r.value ELSE None

(***************************************************************************)
(* Data: the guest table and the activity schedule (load_data, data.py).   *)
(* A date-time string is a sequence of numbers: <<day, hour>> parses, any  *)
(* other shape is a string pandas cannot parse.                            *)
(***************************************************************************)
GuestPool ==
    { [Guest_ID |-> "G-101", Last_Name |-> "Smith",
       Check_In |-> <<0, 14>>, Check_Out |-> <<2, 11>>],
      [Guest_ID |-> "G-104", Last_Name |-> "Brown",
       Check_In |-> <<>>, Check_Out |-> <<1, 11>>] }

hotel_schedule ==
    << [Date |-> <<0>>, Start_Time |-> <<7>>,  Activity_Name |-> "Sunrise Yoga",
        Price |-> "50 AED"],
       [Date |-> <<0>>, Start_Time |-> <<14>>, Activity_Name |-> "Cooking Masterclass",
        Price |-> "150 AED"],
       [Date |-> <<1>>, Start_Time |-> <<9>>,  Activity_Name |-> "Aqua Aerobics",
        Price |-> "Free"],
       [Date |-> <<2>>, Start_Time |-> <<11>>, Activity_Name |-> "Sunday Grand Brunch",
        Price |-> "250 AED"],
       [Date |-> <<2>>, Start_Time |-> <<20>>, Activity_Name |-> "Whiskey Tasting",
        Price |-> "300 AED"] >>

\* pd.to_datetime of one string
to_datetime(s) ==
    IF Len(s) = 2 /\ s[2] \in 0..23
    THEN [ok |-> TRUE, dt |-> s[1] * 24 + s[2]]
    ELSE [ok |-> FALSE, dt |-> 0]

ScheduleError == Str(<<"Error processing schedule: ">>)

\* what load_data() may return: both tables as the files hold them (a file
\* that holds its header row only gives an empty table), or two empty tables
\* when reading either file raised
load_data ==
    { [guests |-> GuestPool, schedule |-> hotel_schedule],
      [guests |-> GuestPool, schedule |-> <<>>],
      [guests |-> {},        schedule |-> hotel_schedule],
      [guests |-> {},        schedule |-> <<>>] }

\* mutant of get_guest_schedule: an activity that starts at the check-in or
\* at the check-out time is left out
GetGuestScheduleExclusive(check_in, check_out) ==
    LET cin_dt  == to_datetime(check_in)
        cout_dt == to_datetime(check_out)
        Activity_DateTime(row) == to_datetime(row.Date \o row.Start_Time)
        mask(row) == /\ Activity_DateTime(row).dt > cin_dt.dt
                     /\ Activity_DateTime(row).dt < cout_dt.dt
    IN  IF /\ cin_dt.ok
           /\ cout_dt.ok
           /\ \A i \in 1..Len(df_schedule) : Activity_DateTime(df_schedule[i]).ok
        THEN List(SelectSeq(df_schedule, mask))
        ELSE ScheduleError

\* reads the global df_schedule
get_guest_schedule(check_in, check_out) ==
    LET cin_dt  == to_datetime(check_in)
        cout_dt == to_datetime(check_out)
        Activity_DateTime(row) == to_datetime(row.Date \o row.Start_Time)
        mask(row) == /\ Activity_DateTime(row).dt >= cin_dt.dt
                     /\ Activity_DateTime(row).dt <= cout_dt.dt
    IN  IF /\ cin_dt.ok
           /\ cout_dt.ok
           /\ \A i \in 1..Len(df_schedule) : Activity_DateTime(df_schedule[i]).ok
        THEN List(SelectSeq(df_schedule, mask))
        ELSE ScheduleError

(***************************************************************************)
(* The language model gateway.                                             *)
(***************************************************************************)
\* texts the language model may return (response.text)
RawTexts ==
    { <<>>,
      <<"[", "{aqua}", ",", " ", "{whiskey}", "]">>,
      <<Fence, "json", "\n", "[", "{mixer}", ",", "{partial}", "]", "\n", Fence>>,
      <<"[", "]">>,
      <<"{aqua}">> }

OfflineText == Str(<<"I'm sorry, my language core is offline (API Key missing).">>)

ApologyText ==
    Str(<<"I apologize, I'm having trouble connecting right now. (", "e", ")">>)

\* what one call of client.models.generate_content may do
ApiOutcomes ==
    {[raises |-> TRUE, text |-> None]}
       \cup {[raises |-> FALSE, text |-> Str(t)] : t \in RawTexts}

\* the gateway during one run of the script: without a client (an empty
\* GEMINI_API_KEY) the model is never called, so only one such gateway is
\* drawn
Gateways ==
    {[client |-> FALSE, api |-> [raises |-> TRUE, text |-> None]]}
       \cup {[client |-> TRUE, api |-> a] : a \in ApiOutcomes}

\* mutant of generate_ai_response: a failed call of the model is tried again
GenerateAiResponseRetries(client, api) ==
    IF ~client THEN [text |-> OfflineText, calls |-> 0]
    ELSE IF api.raises THEN [text |-> ApologyText, calls |-> 2]
    ELSE [text |-> api.text, calls |-> 1]

\* client is TRUE when a client was built (a non-empty GEMINI_API_KEY);
\* returns the text and the number of calls made to the model
generate_ai_response(client, api) ==
    IF ~client THEN [text |-> OfflineText, calls |-> 0]
    ELSE IF api.raises THEN [text |-> ApologyText, calls |-> 1]
    ELSE [text |-> api.text, calls |-> 1]

(***************************************************************************)
(* The confirmation e-mail.                                                *)
(***************************************************************************)
\* A secrets file is the set of the keys it holds.  st.secrets[k] is written
\* with the tuple of its subscripts: st.secrets["A"] looks up <<"A">>, and
\* st.secrets["A", d] looks up the pair <<"A", d>>.  The keys of a secrets
\* file are single strings.
SecretsFiles ==
    { {<<"GEMINI_API_KEY">>},
      {<<"GEMINI_API_KEY">>, <<"SMTP_EMAIL">>, <<"SMTP_PASSWORD">>,
       <<"SMTP_SERVER">>, <<"SMTP_PORT">>} }

\* st.secrets[key] raises KeyError when the file does not hold the key
SecretsHas(secrets, key) == key \in secrets

\* the mail settings during one call: the secrets file, and whether the SMTP
\* exchange works
MailSettings == {[secrets |-> f, smtp_ok |-> b] : f \in SecretsFiles, b \in BOOLEAN}

\* [raised |-> TRUE] when an exception leaves the function, else the
\* success flag it returns; smtp_ok says whether the SMTP exchange works
send_booking_confirmation_email(settings) ==
    LET secrets == settings.secrets
        smtp_ok == settings.smtp_ok
    IN
    IF ~SecretsHas(secrets, <<"SMTP_EMAIL">>)
    THEN [raised |-> TRUE, success |-> FALSE]
    ELSE IF ~SecretsHas(secrets, <<"SMTP_PASSWORD", "">>)
    THEN [raised |-> TRUE, success |-> FALSE]
    ELSE IF ~SecretsHas(secrets, <<"SMTP_SERVER", "smtp.gmail.com">>)
    THEN [raised |-> TRUE, success |-> FALSE]
    ELSE IF ~SecretsHas(secrets, <<"SMTP_PORT", "587">>)
    THEN [raised |-> TRUE, success |-> FALSE]
    ELSE [raised |-> FALSE, success |-> smtp_ok]

\* the two ends of random.randint(100000, 999999), as the strings the
\* f-string makes of them
RefNums == {"100000", "999999"}

(***************************************************************************)
(* Messages and the page.                                                  *)
(***************************************************************************)
\* type "" and ref_num "" stand for a message without that key
TextMsg(role, content) ==
    [role |-> role, content |-> content, type |-> "", paid |-> FALSE,
     ref_num |-> ""]

CardsMsg(parsed_activities) ==
    [role |-> "assistant", content |-> parsed_activities, type |-> "json_cards",
     paid |-> FALSE, ref_num |-> ""]

\* mutant of PaymentRequestMsg: the reference number is drawn when the request
\* is made
PaymentRequestMsgWithRef(act) ==
    [role |-> "assistant", content |-> act, type |-> "payment_request",
     paid |-> FALSE, ref_num |-> "100000"]

PaymentRequestMsg(act) ==
    [role |-> "assistant", content |-> act, type |-> "payment_request",
     paid |-> FALSE, ref_num |-> ""]

BookingPrefix == "I would like to book **"

BookingUserMsg(act) ==
    TextMsg("user", Str(<<BookingPrefix>> \o str(Get(act, "activity_name"))
                          \o <<"** for ">> \o str(Get(act, "price")) \o <<".">>))

ConfirmedPrefix == "Booking Confirmed! You have been booked for **"

SuccessMsg(act, ref_num) ==
    TextMsg("assistant",
            Str(<<ConfirmedPrefix>> \o str(Get(act, "activity_name"))
                  \o <<"**. Reference Number: ", ref_num,
                       " We have sent a confirmation details to the front desk.">>))

\* mutant of GreetingMsg: the greeting does not name the guest
GreetingMsgAnonymous(last_name) ==
    TextMsg("assistant",
            Str(<<"Hi, ", "Guest",
                  ". It is a pleasure to welcome you to Jumeirah Beach Hotel. ">>))

GreetingMsg(last_name) ==
    TextMsg("assistant",
            Str(<<"Hi, ", last_name,
                  ". It is a pleasure to welcome you to Jumeirah Beach Hotel. ">>))

DeclineText ==
    Str(<<"Certainly. Please feel free to reach out if you change your mind. Enjoy your stay!">>)

PersonalizeOrListText ==
    Str(<<"Do you want me to personalize any experience for you, or shall I give you a list of activities according to your schedule?">>)

PreferenceQuestionText ==
    Str(<<"I'd love to curate something special for you. Could you tell me a bit more about what you're in the mood for?">>)

ListIntroText == Str(<<"Here are the activities available during your stay:">>)

PersonalizedIntroText ==
    Str(<<"Here are some personalized recommendations for you:">>)

IsBookingMsg(m) ==
    /\ m.role = "user"
    /\ m.content.t = "str"
    /\ m.content.items # <<>>
    /\ Head(m.content.items) = BookingPrefix

NumTurns(msgs) ==
    Cardinality({i \in 1..Len(msgs) :
                    msgs[i].role = "user" /\ ~IsBookingMsg(msgs[i])})

\* render_activity_cards: the activities whose "Book Now" button is put on
\* the page, and whether an exception ends the rendering.  Iterating a list
\* stops at the first element that is no dict (it has no .get) or whose
\* button key was used before; any other value raises at once.
render_activity_cards(activities) ==
    IF activities.t = "list"
    THEN LET items == activities.items
             Bad(j) == \/ items[j] \notin ObjTokens
                       \/ \E k \in 1..(j-1) : items[k] = items[j]
         IN  IF \E j \in 1..Len(items) : Bad(j)
             THEN LET j == CHOOSE j \in 1..Len(items) :
                             Bad(j) /\ \A k \in 1..(j-1) : ~Bad(k)
                  IN  [buttons |-> SubSeq(items, 1, j - 1), raised |-> TRUE]
             ELSE [buttons |-> items, raised |-> FALSE]
    ELSE [buttons |-> <<>>, raised |-> Truthy(activities) \/ activities.t \in {"int", "none"}]

ChatWidget == <<"chat", 0, 0>>

\* mutant of MsgWidgets: the pay button of a payment request is put on the
\* page whether it is paid or not
MsgWidgetsPayAlways(msgs, i) ==
    IF msgs[i].type = "json_cards"
    THEN {<<"book", i, j>> :
             j \in 1..Len(render_activity_cards(msgs[i].content).buttons)}
    ELSE IF msgs[i].type = "payment_request"
    THEN {<<"pay", i, 0>>}
    ELSE {}

\* the widgets the display of message i puts on the page
MsgWidgets(msgs, i) ==
    IF msgs[i].type = "json_cards"
    THEN {<<"book", i, j>> :
             j \in 1..Len(render_activity_cards(msgs[i].content).buttons)}
    ELSE IF msgs[i].type = "payment_request" /\ ~msgs[i].paid
    THEN {<<"pay", i, 0>>}
    ELSE {}

MsgRaises(msgs, i) ==
    msgs[i].type = "json_cards" /\ render_activity_cards(msgs[i].content).raised

\* the first message whose display raises, 0 when none does
CrashAt(msgs) ==
    IF \E i \in 1..Len(msgs) : MsgRaises(msgs, i)
    THEN CHOOSE i \in 1..Len(msgs) :
            MsgRaises(msgs, i) /\ \A k \in 1..(i-1) : ~MsgRaises(msgs, k)
    ELSE 0

\* "Display Chat History": the widgets on the page when the loop ends or raises
HistoryWidgets(msgs) ==
    LET upto == IF CrashAt(msgs) = 0 THEN Len(msgs) ELSE CrashAt(msgs)
    IN  UNION {MsgWidgets(msgs, i) : i \in 1..upto}

(***************************************************************************)
(* One user turn (the "Chat Input" block).                                 *)
(***************************************************************************)
\* "No", "I know", "Personal", "I'd like to relax"
UserInputs ==
    { <<"N","o">>,
      <<"I"," ","k","n","o","w">>,
      <<"P","e","r","s","o","n","a","l">>,
      <<"I","'","d"," ","l","i","k","e"," ","t","o"," ","r","e","l","a","x">> }

DeclineWords == { <<"n","o">>, <<"n","o","p","e">>, <<"n","o","t"," ","n","o","w">> }

Stages == {"LOGIN", "GREETING", "OFFER_HELP", "PREFERENCE",
           "PERSONALIZE_Q_AND_A", "RESULT", "ENDED"}

\* a turn that calls neither the filter nor the model
FixedReply(next_stage, response_text) ==
    [chat_stage |-> next_stage, response_text |-> response_text,
     is_json_response |-> FALSE, parsed_activities |-> List(<<>>),
     llm_calls |-> 0, gateway_calls |-> 0, filter_calls |-> 0,
     prompt_activities |-> None, raw_response |-> None, client |-> ""]

\* filter, prompt, gateway, validator; the stage becomes RESULT
Pipeline(guest, client, api, intro) ==
    LET stay_activities == get_guest_schedule(guest.Check_In, guest.Check_Out)
        g               == generate_ai_response(client, api)
        raw_response    == g.text
        parsed_json     == parse_json_response(raw_response)
    IN  [chat_stage        |-> "RESULT",
         response_text     |-> IF Truthy(parsed_json) THEN intro ELSE raw_response,
         is_json_response  |-> Truthy(parsed_json),
         parsed_activities |-> IF Truthy(parsed_json) THEN parsed_json ELSE List(<<>>),
         llm_calls         |-> g.calls,
         gateway_calls     |-> 1,
         filter_calls      |-> 1,
         prompt_activities |-> stay_activities,
         raw_response      |-> raw_response,
         client            |-> IF client THEN "built" ELSE "none"]

\* mutant of FollowUp: a follow-up starts the conversation over
FollowUpRestarts(stage, client, api) ==
    LET g == generate_ai_response(client, api)
    IN  [chat_stage |-> "OFFER_HELP", response_text |-> g.text,
         is_json_response |-> FALSE, parsed_activities |-> List(<<>>),
         llm_calls |-> g.calls, gateway_calls |-> 1, filter_calls |-> 0,
         prompt_activities |-> None, raw_response |-> None,
         client |-> IF client THEN "built" ELSE "none"]

\* mutant of FollowUp: the follow-up assigns the stage RESULT
FollowUpToResult(stage, client, api) ==
    LET g == generate_ai_response(client, api)
    IN  [chat_stage |-> "RESULT", response_text |-> g.text,
         is_json_response |-> FALSE, parsed_activities |-> List(<<>>),
         llm_calls |-> g.calls, gateway_calls |-> 1, filter_calls |-> 0,
         prompt_activities |-> None, raw_response |-> None,
         client |-> IF client THEN "built" ELSE "none"]

\* the free-form follow-up: the stage is not assigned
FollowUp(stage, client, api) ==
    LET g == generate_ai_response(client, api)
    IN  [chat_stage |-> stage, response_text |-> g.text,
         is_json_response |-> FALSE, parsed_activities |-> List(<<>>),
         llm_calls |-> g.calls, gateway_calls |-> 1, filter_calls |-> 0,
         prompt_activities |-> None, raw_response |-> None,
         client |-> IF client THEN "built" ELSE "none"]

\* mutant of OfferHelp: the input must be a decline word, not contain one
OfferHelpWholeWord(user_input) ==
    IF lower(user_input) \in DeclineWords
    THEN FixedReply("ENDED", DeclineText)
    ELSE FixedReply("PREFERENCE", PersonalizeOrListText)

OfferHelp(user_input) ==
    IF \E word \in DeclineWords : Contains(word, lower(user_input))
    THEN FixedReply("ENDED", DeclineText)
    ELSE FixedReply("PREFERENCE", PersonalizeOrListText)

\* mutant of Preference: the input is not lower-cased
PreferenceCaseSensitive(user_input, guest, client, api) ==
    IF Contains(<<"p","e","r","s","o","n","a","l">>, user_input)
    THEN FixedReply("PERSONALIZE_Q_AND_A", PreferenceQuestionText)
    ELSE Pipeline(guest, client, api, ListIntroText)

\* mutant of Preference: after the list the stage is kept, for another choice
PreferenceKeepsStage(user_input, guest, client, api) ==
    IF Contains(<<"p","e","r","s","o","n","a","l">>, lower(user_input))
    THEN FixedReply("PERSONALIZE_Q_AND_A", PreferenceQuestionText)
    ELSE [Pipeline(guest, client, api, ListIntroText)
             EXCEPT !.chat_stage = "PREFERENCE"]

Preference(user_input, guest, client, api) ==
    IF Contains(<<"p","e","r","s","o","n","a","l">>, lower(user_input))
    THEN FixedReply("PERSONALIZE_Q_AND_A", PreferenceQuestionText)
    ELSE Pipeline(guest, client, api, ListIntroText)

\* mutant of PersonalizeQAndA: without a structured list the stage is kept,
\* to ask again
PersonalizeQAndAAsksAgain(guest, client, api) ==
    LET r == Pipeline(guest, client, api, PersonalizedIntroText)
    IN  IF r.is_json_response THEN r
        ELSE [r EXCEPT !.chat_stage = "PERSONALIZE_Q_AND_A"]

PersonalizeQAndA(guest, client, api) ==
    Pipeline(guest, client, api, PersonalizedIntroText)

\* "2. Process Assistant Response": the dispatch on the stage
Respond(stage, user_input, guest, client, api) ==
    IF stage = "OFFER_HELP" THEN OfferHelp(user_input)
    ELSE IF stage = "PREFERENCE" THEN Preference(user_input, guest, client, api)
    ELSE IF stage = "PERSONALIZE_Q_AND_A" THEN PersonalizeQAndA(guest, client, api)
    ELSE FollowUp(stage, client, api)

\* mutant of DisplayResponse: the cards are appended without their intro
DisplayResponseNoIntro(r) ==
    IF Truthy(r.response_text)
    THEN IF r.is_json_response
         THEN <<CardsMsg(r.parsed_activities)>>
         ELSE <<TextMsg("assistant", r.response_text)>>
    ELSE <<>>

\* "3. Display Assistant Response": the messages appended after the user's
DisplayResponse(r) ==
    IF Truthy(r.response_text)
    THEN IF r.is_json_response
         THEN <<TextMsg("assistant", r.response_text), CardsMsg(r.parsed_activities)>>
         ELSE <<TextMsg("assistant", r.response_text)>>
    ELSE <<>>

(***************************************************************************)
(* The runs of the script.                                                 *)
(***************************************************************************)
\* a run that processes no chat input
Quiet == FixedReply("", None)

\* what a run did, for the properties: the state it started in, the calls it
\* made (r, as Respond gives them), and whether an exception ended it.
\* client is "built" or "none" as the gateway found it, "" when the run did
\* not call the gateway; raw_response is None outside the two pipelines
Observed(op, input, r, email_calls, raised) ==
    [op |-> op, stage |-> chat_stage, before |-> Len(messages),
     request |-> booking_request, input |-> input,
     response_text |-> r.response_text, is_json_response |-> r.is_json_response,
     llm_calls |-> r.llm_calls, gateway_calls |-> r.gateway_calls,
     filter_calls |-> r.filter_calls, prompt_activities |-> r.prompt_activities,
     raw_response |-> r.raw_response, client |-> r.client,
     email_calls |-> email_calls, raised |-> raised]

Init ==
    /\ messages = <<>>
    /\ chat_stage = "LOGIN"
    /\ guest_info = None
    /\ booking_request = None
    /\ \E loaded \in load_data :
          /\ df_guests = loaded.guests
          /\ df_schedule = loaded.schedule
    /\ screen = {}
    /\ rerun = TRUE
    /\ run = [op |-> "start", stage |-> "LOGIN", before |-> 0, request |-> None,
              input |-> None, response_text |-> None, is_json_response |-> FALSE,
              llm_calls |-> 0, gateway_calls |-> 0, filter_calls |-> 0,
              prompt_activities |-> None, raw_response |-> None, client |-> "",
              email_calls |-> 0, raised |-> FALSE]

\* mutant of Login: the guest is drawn without looking at the loaded table
LoginFromPool ==
    /\ chat_stage = "LOGIN"
    /\ \E random_guest \in GuestPool :
          /\ guest_info' = random_guest
          /\ chat_stage' = "GREETING"
          /\ rerun' = TRUE
    /\ screen' = {}
    /\ run' = Observed("login", None, Quiet, 0, FALSE)
    /\ UNCHANGED <<messages, booking_request, df_guests, df_schedule>>

\* mutant of Login: the login step also runs while the greeting is due, and
\* draws a guest again
LoginRebinds ==
    /\ chat_stage \in {"LOGIN", "GREETING"}
    /\ IF df_guests # {}
       THEN \E random_guest \in df_guests :
               /\ guest_info' = random_guest
               /\ chat_stage' = "GREETING"
               /\ rerun' = TRUE
       ELSE /\ UNCHANGED <<guest_info, chat_stage>>
            /\ rerun' = FALSE
    /\ screen' = {}
    /\ run' = Observed("login", None, Quiet, 0, FALSE)
    /\ UNCHANGED <<messages, booking_request, df_guests, df_schedule>>

\* STEP 1: LOGIN
Login ==
    /\ chat_stage = "LOGIN"
    /\ IF df_guests # {}
       THEN \E random_guest \in df_guests :
               /\ guest_info' = random_guest
               /\ chat_stage' = "GREETING"
               /\ rerun' = TRUE
       ELSE /\ UNCHANGED <<guest_info, chat_stage>>
            /\ rerun' = FALSE
    /\ screen' = {}
    /\ run' = Observed("login", None, Quiet, 0, FALSE)
    /\ UNCHANGED <<messages, booking_request, df_guests, df_schedule>>

\* Handle Booking Request
HandleBooking ==
    /\ chat_stage # "LOGIN"
    /\ Truthy(booking_request)
    /\ Len(messages) < MaxMessages
    /\ LET act       == booking_request
           user_msg  == BookingUserMsg(act)
           price_str == strip(lower(str(GetDefault(act, "price", Str(<<>>)))))
           is_free   == price_str = <<"f","r","e","e">>
       IN  IF is_free
           THEN \E ref_num \in RefNums, settings \in MailSettings :
                   LET mail == send_booking_confirmation_email(settings)
                   IN  IF mail.raised
                       THEN /\ messages' = Append(messages, user_msg)
                            /\ UNCHANGED booking_request
                            /\ rerun' = FALSE
                            /\ run' = Observed("booking", None, Quiet, 1, TRUE)
                       ELSE /\ messages' = messages \o <<user_msg, SuccessMsg(act, ref_num)>>
                            /\ booking_request' = None
                            /\ rerun' = TRUE
                            /\ run' = Observed("booking", None, Quiet, 1, FALSE)
           ELSE /\ messages' = messages \o <<user_msg, PaymentRequestMsg(act)>>
                /\ booking_request' = None
                /\ rerun' = TRUE
                /\ run' = Observed("booking", None, Quiet, 0, FALSE)
    /\ screen' = {}
    /\ UNCHANGED <<chat_stage, guest_info, df_guests, df_schedule>>

\* the condition of the "Initial Greeting Trigger"
GreetingDue == chat_stage = "GREETING" /\ messages = <<>>

\* the run reaches the display of the history
Displays == chat_stage # "LOGIN" /\ ~Truthy(booking_request)

\* Initial Greeting Trigger
Greeting ==
    /\ Displays
    /\ CrashAt(messages) = 0
    /\ GreetingDue
    /\ messages' = Append(messages, GreetingMsg(guest_info.Last_Name))
    /\ chat_stage' = "OFFER_HELP"
    /\ rerun' = TRUE
    /\ screen' = {}
    /\ run' = Observed("greeting", None, Quiet, 0, FALSE)
    /\ UNCHANGED <<guest_info, booking_request, df_guests, df_schedule>>

\* the page a run without an event draws
Page(msgs) ==
    HistoryWidgets(msgs) \cup (IF CrashAt(msgs) = 0 THEN {ChatWidget} ELSE {})

\* a run without an event that reaches it: the page is drawn.  It follows
\* st.rerun(), or the user asks for it; a rerun that draws the page that is
\* already there changes nothing and is no step.
ShowPage ==
    /\ Displays
    /\ ~GreetingDue
    /\ rerun \/ screen # Page(messages)
    /\ screen' = Page(messages)
    /\ rerun' = FALSE
    /\ run' = Observed("show", None, Quiet, 0, CrashAt(messages) # 0)
    /\ UNCHANGED <<session, df_guests, df_schedule>>

\* a click on "Book Now" of card j of message i
BookNow(i, j) ==
    /\ ~rerun
    /\ <<"book", i, j>> \in screen
    /\ Displays
    /\ <<"book", i, j>> \in HistoryWidgets(messages)
    /\ Len(messages) + 2 <= MaxMessages
    /\ booking_request' = Dict(messages[i].content.items[j])
    /\ rerun' = TRUE
    /\ screen' = {}
    /\ run' = Observed("book_now", None, Quiet, 0, FALSE)
    /\ UNCHANGED <<messages, chat_stage, guest_info, df_guests, df_schedule>>

\* mutant of MarkPaid: the request is replaced by a confirmation text
MarkPaidReplaces(msgs, i, ref_num) ==
    [msgs EXCEPT ![i] = SuccessMsg(msgs[i].content, ref_num)]

\* msg["paid"] = True; msg["ref_num"] = ref_num
MarkPaid(msgs, i, ref_num) ==
    [msgs EXCEPT ![i].paid = TRUE, ![i].ref_num = ref_num]

\* a click on "Tap to Pay & Confirm" of message i
PayConfirm(i) ==
    /\ ~rerun
    /\ <<"pay", i, 0>> \in screen
    /\ Displays
    /\ <<"pay", i, 0>> \in HistoryWidgets(messages)
    /\ \E ref_num \in RefNums, settings \in MailSettings :
          LET mail == send_booking_confirmation_email(settings)
          IN  /\ messages' = MarkPaid(messages, i, ref_num)
              /\ IF mail.raised
                 THEN /\ rerun' = FALSE
                      /\ screen' = {w \in HistoryWidgets(messages) : w[2] < i}
                                      \cup {<<"pay", i, 0>>}
                 ELSE /\ rerun' = TRUE
                      /\ screen' = {}
              /\ run' = Observed("pay", None, Quiet, 1, mail.raised)
    /\ UNCHANGED <<chat_stage, guest_info, booking_request, df_guests, df_schedule>>

\* Chat Input: one user turn
ChatInput(user_input) ==
    /\ ~rerun
    /\ ChatWidget \in screen
    /\ Displays
    /\ CrashAt(messages) = 0
    /\ ~GreetingDue
    /\ NumTurns(messages) < MaxTurns
    /\ \E gw \in Gateways :
          LET r == Respond(chat_stage, user_input, guest_info, gw.client, gw.api)
          IN  /\ messages' = Append(messages, TextMsg("user", Str(user_input)))
                                \o DisplayResponse(r)
              /\ Len(messages') <= MaxMessages
              /\ chat_stage' = r.chat_stage
              /\ screen' = HistoryWidgets(messages') \cup {ChatWidget}
              /\ rerun' = FALSE
              /\ run' = Observed("chat", Str(user_input), r, 0,
                                 CrashAt(messages') # 0)
    /\ UNCHANGED <<guest_info, booking_request, df_guests, df_schedule>>

Next ==
    \/ Login
    \/ HandleBooking
    \/ Greeting
    \/ ShowPage
    \/ \E i \in 1..Len(messages), j \in 1..2 : BookNow(i, j)
    \/ \E i \in 1..Len(messages) : PayConfirm(i)
    \/ \E user_input \in UserInputs : ChatInput(user_input)

Spec == Init /\ [][Next]_vars

\* The script runs when the session opens, and Login ends in st.rerun(), which
\* runs the script again without an event of the user: the login run and the
\* run that greets are not put off for ever.
LiveSpec == Spec /\ WF_vars(Login) /\ WF_vars(Greeting)

(***************************************************************************)
(* The schedule filter on its own: any catalog, any stay window.           *)
(***************************************************************************)
\* rows a hotel_schedule.csv may hold: those of data.py, and one whose start
\* time is no time of day
ScheduleRows ==
    {hotel_schedule[i] : i \in 1..Len(hotel_schedule)}
       \cup {[Date |-> <<1>>, Start_Time |-> <<24>>,
               Activity_Name |-> "Midnight Swim", Price |-> "Free"]}

Catalogs == UNION {[1..n -> ScheduleRows] : n \in 0..MaxCatalog}

\* check-in and check-out strings of a guest record
StayTimes == { <<0, 14>>, <<1, 9>>, <<2, 11>>, <<>> }

FilterInit ==
    /\ messages = <<>>
    /\ chat_stage = "PREFERENCE"
    /\ \E check_in \in StayTimes, check_out \in StayTimes :
          guest_info = [Guest_ID |-> "G-100", Last_Name |-> "Guest",
                        Check_In |-> check_in, Check_Out |-> check_out]
    /\ booking_request = None
    /\ df_guests = {guest_info}
    /\ df_schedule \in Catalogs
    /\ screen = {}
    /\ rerun = FALSE
    /\ run = [op |-> "start", result |-> None]

\* stay_activities = get_guest_schedule(check_in, check_out)
GetGuestSchedule ==
    /\ run.op = "start"
    /\ LET check_in  == guest_info.Check_In
           check_out == guest_info.Check_Out
       IN  run' = [op |-> "get_guest_schedule",
                   result |-> get_guest_schedule(check_in, check_out)]
    /\ UNCHANGED <<session, df_guests, df_schedule, screen, rerun>>

FilterNext == GetGuestSchedule

FilterSpec == FilterInit /\ [][FilterNext]_vars

(***************************************************************************)
(* The validator on its own: the serialization of any list of records,     *)
(* bare or between code-fence markers, and malformed texts.                *)
(***************************************************************************)
\* the text json.dumps writes for one record
ObjectText(tok) ==
    IF tok = "{note}" THEN <<"{note:", " ", Fence, ":note}">>
    ELSE IF tok = "{note-}" THEN <<"{note:", ":note}">>
    ELSE <<tok>>

\* the text json.dumps writes for a list of records
RECURSIVE json_dumps(_)
json_dumps(items) ==
    IF items = <<>> THEN <<"[", "]">>
    ELSE IF Len(items) = 1 THEN <<"[">> \o ObjectText(items[1]) \o <<"]">>
    ELSE <<"[">> \o ObjectText(items[1]) \o <<",", " ">>
            \o Tail(json_dumps(Tail(items)))

Wrappings == {"bare", "fence json", "fence"}

\* the serialization as the model writes it: bare, or as a code block with
\* or without the language tag
Wrap(text, wrapping) ==
    CASE wrapping = "bare"       -> text
      [] wrapping = "fence json" -> <<Fence, "json", "\n">> \o text \o <<"\n", Fence>>
      [] wrapping = "fence"      -> <<Fence, "\n">> \o text \o <<"\n", Fence>>

ParseRecords == {"{aqua}", "{whiskey}", "{partial}", "{note}"}

RecordLists == UNION {[1..n -> ParseRecords] : n \in 0..MaxRecords}

\* texts that are no JSON document, and None
MalformedTexts ==
    { Str(<<>>),
      Str(<<"Sorry, I have no activities for you.">>),
      Str(<<"[", "{aqua}">>),
      Str(<<"[", "{aqua}", ",", "]">>),
      Str(<<Fence, "json", "\n", "[", "{aqua}", "\n", Fence>>),
      None }

ParseInit ==
    /\ messages = <<>>
    /\ chat_stage = "PREFERENCE"
    /\ guest_info = None
    /\ booking_request = None
    /\ df_guests = {}
    /\ df_schedule = <<>>
    /\ screen = {}
    /\ rerun = FALSE
    /\ \/ \E items \in RecordLists, wrapping \in Wrappings :
             run = [op |-> "start", wellformed |-> TRUE, records |-> List(items),
                    text |-> Str(Wrap(json_dumps(items), wrapping)),
                    result |-> None]
       \/ \E text \in MalformedTexts :
             run = [op |-> "start", wellformed |-> FALSE, records |-> None,
                    text |-> text, result |-> None]

\* parsed_json = parse_json_response(raw_response)
ParseJsonResponse ==
    /\ run.op = "start"
    /\ run' = [run EXCEPT !.op = "parse_json_response",
                          !.result = parse_json_response(run.text)]
    /\ UNCHANGED <<session, df_guests, df_schedule, screen, rerun>>

ParseNext == ParseJsonResponse

ParseSpec == ParseInit /\ [][ParseNext]_vars

(***************************************************************************)
(* Properties.                                                             *)
(***************************************************************************)
StageEdges ==
    { <<"LOGIN", "GREETING">>, <<"GREETING", "OFFER_HELP">>,
      <<"OFFER_HELP", "PREFERENCE">>, <<"OFFER_HELP", "ENDED">>,
      <<"PREFERENCE", "PERSONALIZE_Q_AND_A">>, <<"PREFERENCE", "RESULT">>,
      <<"PERSONALIZE_Q_AND_A", "RESULT">>, <<"RESULT", "RESULT">>,
      <<"ENDED", "RESULT">> }

\* a stage is further along the graph than every stage of lower rank
StageRank(st) ==
    CASE st = "LOGIN" -> 0
      [] st = "GREETING" -> 1
      [] st = "OFFER_HELP" -> 2
      [] st = "PREFERENCE" -> 3
      [] st = "ENDED" -> 3
      [] st = "PERSONALIZE_Q_AND_A" -> 4
      [] st = "RESULT" -> 5

\* C1: every change of chat_stage, in any run of the script, follows an edge
\* of the stage graph and moves strictly forward in it, so no stage is
\* entered again once it has been left.
C1_StageGraph ==
    [][chat_stage' # chat_stage =>
          /\ <<chat_stage, chat_stage'>> \in StageEdges
          /\ StageRank(chat_stage') > StageRank(chat_stage)]_vars

\* a follow-up turn in RESULT after a payment was confirmed
C1_Witness ==
    /\ run.op = "chat"
    /\ run.stage = "RESULT"
    /\ chat_stage = "RESULT"
    /\ \E i \in 1..Len(messages) : messages[i].paid

\* C2: after a user turn processed in OFFER_HELP there is one assistant reply;
\* stage and reply are ENDED and the decline text exactly when the lower-cased
\* input contains "no", "nope" or "not now", else PREFERENCE and the
\* personalize-or-list question; the gateway and the model are not called.
C2_OfferHelpTurn ==
    (run.op = "chat" /\ run.stage = "OFFER_HELP") =>
        LET text     == lower(run.input.items)
            declines == \/ Contains(<<"n","o">>, text)
                        \/ Contains(<<"n","o","p","e">>, text)
                        \/ Contains(<<"n","o","t"," ","n","o","w">>, text)
        IN  /\ Len(messages) = run.before + 2
            /\ messages[run.before + 2] =
                  TextMsg("assistant",
                          IF declines THEN DeclineText ELSE PersonalizeOrListText)
            /\ chat_stage = (IF declines THEN "ENDED" ELSE "PREFERENCE")
            /\ run.gateway_calls = 0
            /\ run.llm_calls = 0

\* "I know" in OFFER_HELP ends the conversation: "no" is a substring of it
C2_Witness ==
    /\ run.op = "chat"
    /\ run.stage = "OFFER_HELP"
    /\ run.input = Str(<<"I"," ","k","n","o","w">>)
    /\ chat_stage = "ENDED"

\* C3: after a user turn processed in PREFERENCE: if the lower-cased input
\* contains "personal" the stage is PERSONALIZE_Q_AND_A, the one reply is the
\* preference question and neither the filter nor the gateway ran; otherwise
\* the filter and the gateway ran once each, the model was called at most
\* once, and the stage is RESULT.
C3_PreferenceTurn ==
    (run.op = "chat" /\ run.stage = "PREFERENCE") =>
        IF Contains(<<"p","e","r","s","o","n","a","l">>, lower(run.input.items))
        THEN /\ chat_stage = "PERSONALIZE_Q_AND_A"
             /\ Len(messages) = run.before + 2
             /\ messages[run.before + 2] = TextMsg("assistant", PreferenceQuestionText)
             /\ run.filter_calls = 0
             /\ run.gateway_calls = 0
             /\ run.llm_calls = 0
        ELSE /\ chat_stage = "RESULT"
             /\ run.filter_calls = 1
             /\ run.gateway_calls = 1
             /\ run.llm_calls <= 1

\* "I'd like to relax" in PREFERENCE gave the list of cards
C3_Witness ==
    /\ run.op = "chat"
    /\ run.stage = "PREFERENCE"
    /\ run.input = Str(<<"I","'","d"," ","l","i","k","e"," ","t","o"," ",
                         "r","e","l","a","x">>)
    /\ run.is_json_response
    /\ chat_stage = "RESULT"
    /\ messages[Len(messages)].type = "json_cards"

\* C4: a user turn processed in PERSONALIZE_Q_AND_A ends in RESULT and no
\* exception escapes it, whatever the filter, the gateway and the model did.
C4_PersonalizeTurn ==
    (run.op = "chat" /\ run.stage = "PERSONALIZE_Q_AND_A") =>
        /\ chat_stage = "RESULT"
        /\ ~run.raised

\* C5 as stated: after a user turn processed in RESULT or ENDED the stage is
\* RESULT.
C5_Original ==
    (run.op = "chat" /\ run.stage \in {"RESULT", "ENDED"}) =>
        chat_stage = "RESULT"

\* C5, amended: a user turn processed in RESULT or ENDED leaves the stage as
\* it was.
C5_FollowUpKeepsStage ==
    (run.op = "chat" /\ run.stage \in {"RESULT", "ENDED"}) =>
        chat_stage = run.stage

\* a guest who declined sent another message and is still in ENDED
C5_Witness ==
    /\ run.op = "chat"
    /\ run.stage = "ENDED"
    /\ chat_stage = "ENDED"
    /\ run.gateway_calls = 1

\* what C6 says of the messages a turn appends, but for their number
C6_Shape ==
    /\ Len(messages) > run.before
    /\ messages[run.before + 1] = TextMsg("user", run.input)
    /\ \A i \in (run.before + 2)..Len(messages) :
          /\ messages[i].role = "assistant"
          /\ messages[i].type = "json_cards" =>
                /\ i > run.before + 2
                /\ messages[i - 1].role = "assistant"
                /\ messages[i - 1].type = ""
                /\ messages[i - 1].content \in {ListIntroText, PersonalizedIntroText}

\* C6 as stated: every processed chat input appends one user message and then
\* at least one assistant message, the intro right before the cards.
C6_Original ==
    run.op = "chat" => (C6_Shape /\ Len(messages) >= run.before + 2)

\* C6, amended: every processed chat input appends one user message, and then
\* at least one assistant message exactly when the reply text is not empty;
\* the intro comes right before the cards.
C6_TurnAppends ==
    run.op = "chat" =>
        /\ C6_Shape
        /\ IF Truthy(run.response_text)
           THEN Len(messages) >= run.before + 2
           ELSE Len(messages) = run.before + 1

\* the model returned the empty text: the turn appended the user message only
C6_Witness ==
    /\ run.op = "chat"
    /\ run.llm_calls = 1
    /\ run.response_text = Str(<<>>)
    /\ Len(messages) = run.before + 1

\* C7: after a run that appended the booking user message of a pending
\* request, booking_request is empty.
C7_RequestCleared ==
    run.op = "booking" => booking_request = None

\* C8: a run of the script keeps every message of the history in place and
\* unchanged, but that an unpaid payment request may become paid and get a
\* reference number.
C8_AppendOnly ==
    [][/\ Len(messages') >= Len(messages)
       /\ \A i \in 1..Len(messages) :
             \/ messages'[i] = messages[i]
             \/ /\ messages[i].type = "payment_request"
                /\ ~messages[i].paid
                /\ messages'[i].ref_num \in RefNums
                /\ messages'[i] = [messages[i] EXCEPT !.paid = TRUE,
                                       !.ref_num = messages'[i].ref_num]]_vars

\* a payment request was paid and the history grew after it
C8_Witness ==
    \E i \in 1..Len(messages) :
        /\ messages[i].paid
        /\ Len(messages) >= i + 2
        /\ run.op = "chat"

IsConfirmation(m) ==
    /\ m.role = "assistant"
    /\ m.type = ""
    /\ m.content.t = "str"
    /\ m.content.items # <<>>
    /\ Head(m.content.items) = ConfirmedPrefix
    /\ \E k \in 1..Len(m.content.items) : m.content.items[k] \in RefNums

\* C9: a run that processes a pending booking appends, for a price that is
\* "free" once lower-cased and stripped, one confirmation message with a
\* reference number and no payment request; for any other price one unpaid
\* payment request without a reference number and no confirmation message.
C9_BookingPath ==
    run.op = "booking" =>
        LET price   == str(GetDefault(run.request, "price", Str(<<>>)))
            free    == strip(lower(price)) = <<"f","r","e","e">>
            new     == (run.before + 1)..Len(messages)
            confs   == {i \in new : IsConfirmation(messages[i])}
            reqs    == {i \in new : messages[i].type = "payment_request"}
        IN  IF free
            THEN Cardinality(confs) = 1 /\ reqs = {}
            ELSE /\ Cardinality(reqs) = 1
                 /\ \A i \in reqs : ~messages[i].paid /\ messages[i].ref_num = ""
                 /\ confs = {}

\* C10: a payment request holds a reference number exactly when it is paid.
C10_RefIffPaid ==
    \A i \in 1..Len(messages) :
        messages[i].type = "payment_request" =>
            (messages[i].ref_num # "" <=> messages[i].paid)

\* one payment request was confirmed while another is still unpaid
C10_Witness ==
    /\ run.op = "pay"
    /\ \E i \in 1..Len(messages) :
          messages[i].type = "payment_request" /\ messages[i].paid
                /\ messages[i].ref_num \in RefNums
    /\ \E i \in 1..Len(messages) :
          messages[i].type = "payment_request" /\ ~messages[i].paid

\* C11: no call of the confirmation e-mail throws into the run that made it,
\* whatever the SMTP settings and the SMTP exchange do: after a free booking
\* that called it the confirmation message is appended and the pending
\* request is cleared, and after a payment confirmation that called it a
\* payment request is paid and holds a reference number.
C11_NotificationContained ==
    run.email_calls > 0 =>
        /\ ~run.raised
        /\ run.op = "booking" =>
              /\ booking_request = None
              /\ Len(messages) = run.before + 2
              /\ IsConfirmation(messages[Len(messages)])
        /\ run.op = "pay" =>
              \E i \in 1..Len(messages) :
                  /\ messages[i].type = "payment_request"
                  /\ messages[i].paid
                  /\ messages[i].ref_num \in RefNums

\* the hour count of a date-time string that parses
Hours(s) == s[1] * 24 + s[2]

C13_ScheduleErrorSurfaced ==
    (run.op = "chat" /\ run.filter_calls = 1
        /\ run.prompt_activities = ScheduleError) =>
        /\ ~run.raised
        /\ run.gateway_calls = 0
        /\ Len(messages) = run.before + 2
        /\ messages[Len(messages)] = TextMsg("assistant", ScheduleError)

\* C14: a run of the script calls the language model at most once, also when
\* the call fails; a turn whose gateway has no client does not call it at
\* all, and its reply is the fixed offline message.
C14_OneAttempt ==
    /\ run.llm_calls <= 1
    /\ (run.op = "chat" /\ run.client = "none") =>
          /\ run.llm_calls = 0
          /\ run.response_text = OfflineText
          /\ Len(messages) = run.before + 2
          /\ messages[Len(messages)] = TextMsg("assistant", OfflineText)

\* the one call of a pipeline turn failed: the reply is the apology, and the
\* model was not called again
C14_Witness ==
    /\ run.op = "chat"
    /\ run.stage = "PERSONALIZE_Q_AND_A"
    /\ run.client = "built"
    /\ run.llm_calls = 1
    /\ run.response_text = ApologyText
    /\ messages[Len(messages)] = TextMsg("assistant", ApologyText)

\* C15: when the text the gateway gave a pipeline turn is not empty and is
\* malformed, or is JSON that is no array, parse_json_response yields None for
\* it, and the turn appends that text as its one plain-text assistant message
\* and no structured list.
C15_StrictContainer ==
    (run.op = "chat" /\ run.filter_calls = 1 /\ Truthy(run.raw_response)) =>
        LET loaded == json_loads(StripWs(re_sub(run.raw_response.items)))
        IN  (~loaded.ok \/ loaded.value.t # "list") =>
              /\ parse_json_response(run.raw_response) = None
              /\ ~run.is_json_response
              /\ Len(messages) = run.before + 2
              /\ messages[Len(messages)] = TextMsg("assistant", run.raw_response)

\* C16: parse_json_response gives back the list of records when it is applied
\* to the JSON serialization of the list, bare or between code-fence markers
\* with or without the language tag, and gives None for a malformed text.
C16_RoundTrip ==
    run.op = "parse_json_response" =>
        IF run.wellformed THEN run.result = run.records ELSE run.result = None

\* C17: every record of every list held by a json_cards message of the
\* history is an object with the six fields day, date, time, activity_name,
\* price and description.
C17_SixFieldRecords ==
    \A i \in 1..Len(messages) :
        (messages[i].type = "json_cards" /\ messages[i].content.t = "list") =>
            \A k \in 1..Len(messages[i].content.items) :
                /\ messages[i].content.items[k] \in ObjTokens
                /\ SixFields \subseteq JsonObject(messages[i].content.items[k]).fields

\* C18 as stated: whatever the gateway of a turn does, the turn processed from
\* the same stage with the same input text gives the same next stage and the
\* same kind of response (plain text or structured list).
C18_Original ==
    run.op = "chat" =>
        \A gw \in Gateways :
            LET r == Respond(run.stage, run.input.items, guest_info,
                             gw.client, gw.api)
            IN  /\ r.chat_stage = chat_stage
                /\ r.is_json_response = run.is_json_response

\* C18, amended: whatever the gateway of a turn does, the turn processed from
\* the same stage with the same input text gives the same next stage; it
\* gives the same kind of response whenever the gateway gives the same text.
C18_StageDeterministic ==
    run.op = "chat" =>
        \A gw \in Gateways :
            LET r == Respond(run.stage, run.input.items, guest_info,
                             gw.client, gw.api)
            IN  /\ r.chat_stage = chat_stage
                /\ r.raw_response = run.raw_response =>
                      r.is_json_response = run.is_json_response

\* a turn in PERSONALIZE_Q_AND_A gave a structured list; with another text
\* of the model the same turn gives plain text
C18_Witness ==
    /\ run.op = "chat"
    /\ run.stage = "PERSONALIZE_Q_AND_A"
    /\ run.is_json_response
    /\ chat_stage = "RESULT"
    /\ \E gw \in Gateways :
          ~Respond(run.stage, run.input.items, guest_info,
                   gw.client, gw.api).is_json_response

\* the user message of a booking of a free activity
IsFreeBookingMsg(m) ==
    \E tok \in ObjTokens :
        /\ m = BookingUserMsg(Dict(tok))
        /\ strip(lower(str(GetDefault(Dict(tok), "price", Str(<<>>)))))
              = <<"f","r","e","e">>

\* the reference number a confirmation message holds
RefOf(m) == CHOOSE ref \in RefNums :
                \E k \in 1..Len(m.content.items) : m.content.items[k] = ref

\* C19: each booking of a free activity has a confirmation message of its
\* own (as many confirmation messages in the history as user messages that
\* book a free activity), and no two confirmation messages hold the same
\* reference number.
C19_NoDedup ==
    LET books == {i \in 1..Len(messages) : IsFreeBookingMsg(messages[i])}
        confs == {i \in 1..Len(messages) : IsConfirmation(messages[i])}
    IN  /\ Cardinality(confs) = Cardinality(books)
        /\ \A i \in confs, j \in confs :
              i # j => RefOf(messages[i]) # RefOf(messages[j])

\* C20: when the guest table or the activity catalog is empty after
\* load_data, the stage is LOGIN and the history is empty in every state; and
\* in every state whose stage is not LOGIN a guest profile is bound.
C20_Original ==
    /\ (df_guests = {} \/ df_schedule = <<>>) =>
          (chat_stage = "LOGIN" /\ messages = <<>>)
    /\ chat_stage # "LOGIN" => guest_info \in df_guests

\* C20, amended: when the guest table is empty after load_data (as it is
\* when either file could not be read), the stage is LOGIN and the history
\* is empty in every state; and in every state whose stage is not LOGIN a
\* guest of the table is bound.
C20_LoginGate ==
    /\ df_guests = {} =>
          (chat_stage = "LOGIN" /\ messages = <<>> /\ guest_info = None)
    /\ chat_stage # "LOGIN" => guest_info \in df_guests

\* with guests and a catalog without rows the session went on: a turn asked
\* the filter, which gave the empty list
C20_Witness ==
    /\ df_schedule = <<>>
    /\ df_guests # {}
    /\ run.op = "chat"
    /\ run.filter_calls = 1
    /\ run.prompt_activities = List(<<>>)
    /\ chat_stage = "RESULT"


IsGreeting(m) ==
    /\ m.role = "assistant"
    /\ m.type = ""
    /\ m.content.t = "str"
    /\ m.content.items # <<>>
    /\ Head(m.content.items) = "Hi, "

\* the greeting that names the guest
GreetsGuest(m, guest) ==
    /\ IsGreeting(m)
    /\ Len(m.content.items) = 3
    /\ m.content.items[2] = guest.Last_Name

\* C21: from LOGIN with a guest table that is not empty the session comes,
\* without an event of the user, to stage OFFER_HELP with a history that is
\* the greeting naming the bound guest.  In LOGIN and GREETING the history is
\* empty and the page holds no widget; in every later stage the greeting is
\* the first message and no other message is a greeting; and no chat input
\* is processed in LOGIN or GREETING.
C21_AutoGreeting ==
    /\ [](/\ chat_stage \in {"LOGIN", "GREETING"} =>
               (messages = <<>> /\ screen = {})
          /\ chat_stage \notin {"LOGIN", "GREETING"} =>
               /\ messages # <<>>
               /\ GreetsGuest(messages[1], guest_info)
               /\ \A i \in 2..Len(messages) : ~IsGreeting(messages[i])
          /\ run.op = "chat" => run.stage \notin {"LOGIN", "GREETING"})
    /\ (chat_stage = "LOGIN" /\ df_guests # {})
          ~> (/\ chat_stage = "OFFER_HELP"
              /\ guest_info \in df_guests
              /\ Len(messages) = 1
              /\ GreetsGuest(messages[1], guest_info))

\* the run after the login greeted the guest
C21_Witness ==
    /\ run.op = "greeting"
    /\ run.stage = "GREETING"
    /\ chat_stage = "OFFER_HELP"
    /\ guest_info \in df_guests
    /\ messages = <<GreetingMsg(guest_info.Last_Name)>>

\* C22: in every state whose history holds a json_cards or a payment_request
\* message, or in which a booking request is pending, the stage is RESULT;
\* and every run that takes a click on "Book Now", processes a booking
\* request or confirms a payment starts in stage RESULT.
C22_OnlyInResult ==
    /\ (\/ \E i \in 1..Len(messages) :
               messages[i].type \in {"json_cards", "payment_request"}
         \/ booking_request # None) => chat_stage = "RESULT"
    /\ run.op \in {"book_now", "booking", "pay"} => run.stage = "RESULT"

\* "Book Now" was clicked on a card: the request is pending in stage RESULT
C22_Witness ==
    /\ run.op = "book_now"
    /\ booking_request # None
    /\ chat_stage = "RESULT"
    /\ \E i \in 1..Len(messages) : messages[i].type = "json_cards"

\* C23: a run that processes a pending booking request and a run that
\* confirms a payment leave chat_stage and the guest profile as they were;
\* and once a guest profile is bound, no run changes it.
C23_BookingFrame ==
    [][/\ run'.op \in {"booking", "pay"} =>
             (chat_stage' = chat_stage /\ guest_info' = guest_info)
       /\ guest_info # None => guest_info' = guest_info]_vars

\* the booking of an activity that is not free was processed: the payment
\* request is the last message, stage and guest are those of before
C23_Witness ==
    /\ run.op = "booking"
    /\ booking_request = None
    /\ messages[Len(messages)].type = "payment_request"
    /\ chat_stage = run.stage
    /\ guest_info \in df_guests

\* C24: no run changes a payment request that is paid (its paid flag and its
\* reference number stay); a run that confirms a payment calls the e-mail
\* function once, for one request that was unpaid, and changes no other
\* message; and a click on "Tap to Pay & Confirm" of a request takes effect
\* only while the request is unpaid.
C24_PaidOnce ==
    [][/\ \A i \in 1..Len(messages) :
             (messages[i].type = "payment_request" /\ messages[i].paid) =>
                 (Len(messages') >= i /\ messages'[i] = messages[i])
       /\ run'.op = "pay" =>
             /\ run'.email_calls = 1
             /\ Len(messages') = Len(messages)
             /\ \E i \in 1..Len(messages) :
                   /\ messages[i].type = "payment_request"
                   /\ ~messages[i].paid
                   /\ messages'[i].paid
                   /\ \A j \in 1..Len(messages) :
                         j # i => messages'[j] = messages[j]
       /\ \A i \in 1..Len(messages) :
             ENABLED PayConfirm(i) => ~messages[i].paid]_vars

\* the e-mail call of a payment confirmation raised: the request is paid and
\* its pay button is still on the page
C24_Witness ==
    /\ run.op = "pay"
    /\ run.raised
    /\ \E i \in 1..Len(messages) :
          /\ messages[i].type = "payment_request"
          /\ messages[i].paid
          /\ <<"pay", i, 0>> \in screen

\* C25: no json_cards message of the history holds an empty list (or an
\* empty object); and when the text the gateway gave a pipeline turn is a
\* well-formed empty JSON array, the turn
\* appends that text as its one plain-text assistant message, no json_cards
\* message, and the stage is RESULT.
C25_NoEmptyCards ==
    /\ \A i \in 1..Len(messages) :
          messages[i].type = "json_cards" =>
              /\ messages[i].content.items # <<>>
              /\ messages[i].content # Dict("{}")
    /\ (run.op = "chat" /\ run.filter_calls = 1 /\ run.raw_response.t = "str") =>
          LET loaded == json_loads(StripWs(re_sub(run.raw_response.items)))
          IN  (loaded.ok /\ loaded.value = List(<<>>)) =>
                /\ ~run.is_json_response
                /\ Len(messages) = run.before + 2
                /\ messages[Len(messages)] = TextMsg("assistant", run.raw_response)
                /\ chat_stage = "RESULT"

\* the model answered a personalized request with the empty array
C25_Witness ==
    /\ run.op = "chat"
    /\ run.stage = "PERSONALIZE_Q_AND_A"
    /\ run.raw_response = Str(<<"[", "]">>)
    /\ messages[Len(messages)] = TextMsg("assistant", Str(<<"[", "]">>))
    /\ chat_stage = "RESULT"

=============================================================================
